---- MODULE Spec2Model ----
(***************************************************************************)
(* Model of script.js: the faces table (Descriptor Store), the             *)
(* recognition_logs table (Recognition Ledger), the matcher inside         *)
(* recognizeFace and the five HTTP handlers that drive them.               *)
(*                                                                         *)
(* Numbers.  Descriptor components are integers in units of 0.01.  A       *)
(* distance is an integer in units of 0.00001, so that 100 * distance, and *)
(* with it the confidence, is an integer in units of 0.001 percent.  The   *)
(* string confidence.toFixed(2) is represented by the number of hundredths *)
(* of a percent it spells out.                                             *)
(*                                                                         *)
(* Tables.  A row of faces keeps id, name and descriptor; its timestamp    *)
(* and image_path are written and never read.  A row of recognition_logs   *)
(* keeps all its columns.                                                  *)
(*                                                                         *)
(* Requests.  A handler runs from one await to the next in one step.  A    *)
(* request that waits is in the bag inflight; the request a step answers   *)
(* is in sent, with the locals of its handler and the response, until the  *)
(* step Deliver.  returned, logOrigin and enrolled are history variables.  *)
(***************************************************************************)
EXTENDS Integers, Sequences, FiniteSets, Bags, TLC

(* ------------------------------ bounds -------------------------------- *)

\* largest number of requests that wait for the extractor or the database
MaxInFlight == 2
\* largest number of rows ever inserted into faces
MaxEnroll == 2
\* largest number of recognizeFace calls that reach getAllFaces
MaxCalls == 1
\* largest value of the wall clock, in seconds
MaxClock == 1
\* largest explicit limit of a history query
MaxLimit == 2
\* largest number of records in a store that the matcher is tried on
MaxStore == 3

(* ------------------------- program constants -------------------------- *)

\* recognizeFace(imagePath, threshold = 0.5) and threshold || 0.5
DefaultThreshold == 50000
\* getRecognitionHistory(limit = 50) and req.query.limit || 50
DefaultLimit == 50
\* the distance of the initial bestMatch: larger than every finite distance
Infinity == 1000000000

Names == {"Alice", "Bob"}
\* a missing request field is << >>, a present one <<v>>
Undefined == << >>
Some(v) == <<v>>
\* thresholds a caller can put in the request body
Thresholds == {Undefined, Some(0), Some(35000)}
\* limits a caller can put in the query string
Limits == {Undefined} \cup {Some(n) : n \in 1..MaxLimit}

Min(a, b) == IF a < b THEN a ELSE b
Max(a, b) == IF a > b THEN a ELSE b

\* images a caller can name; "" is a request without imagePath
ImagePaths == {"", "corrupt.jpg", "empty.jpg", "a.jpg", "b.jpg", "ab.jpg"}

(* detectFace: null after a caught error of loadImage or of the detector,  *)
(* else the array of detections, here their descriptors (D = 2)            *)
Null == << >>
detectFace(imagePath) ==
  CASE imagePath = "corrupt.jpg" -> Null
    [] imagePath = "empty.jpg" -> Some(<< >>)
    [] imagePath = "a.jpg" -> Some(<< <<0, 0>> >>)
    [] imagePath = "b.jpg" -> Some(<< <<30, 30>> >>)
    [] imagePath = "ab.jpg" -> Some(<< <<0, 0>>, <<30, 30>> >>)

VARIABLES
  faces,            \* rows of table faces, in rowid order
  logs,             \* rows of table recognition_logs, in rowid order
  sqlite_sequence,  \* AUTOINCREMENT: the largest id ever given, per table
  clock,            \* CURRENT_TIMESTAMP, in seconds
  inflight,         \* bag of the requests in flight: position and locals
  pending,          \* db.run calls of logRecognition not yet executed
  rejected,         \* logRecognition promises that rejected: <<call, face>>
  calls,            \* number of recognizeFace calls that got detections
  sent,             \* the request answered by the last step, if any
  returned,         \* history: per call, what recognizeFace returned
  logOrigin,        \* history: per row of logs, its <<call, face>>
  enrolled          \* history: the ids registerFace resolved with, in order

vars == <<faces, logs, sqlite_sequence, clock, inflight, pending, rejected,
          calls, sent, returned, logOrigin, enrolled>>

(* --------------------------- pure functions --------------------------- *)

Digits == <<"0", "1", "2", "3", "4", "5", "6", "7", "8", "9">>
DigitValue(char) == CHOOSE d \in 0..9 : Digits[d + 1] = char

\* a component that is no finite number: NaN, Infinity or -Infinity
Finite(value) == value < Infinity /\ value > 0 - Infinity

\* the decimal digits of the natural number n
RECURSIVE NatText(_)
NatText(n) ==
  IF n < 10 THEN <<Digits[n + 1]>>
  ELSE NatText(n \div 10) \o <<Digits[(n % 10) + 1]>>

RECURSIVE NatValue(_, _)
NatValue(text, acc) ==
  IF text = << >> THEN acc
  ELSE NatValue(Tail(text), 10 * acc + DigitValue(Head(text)))

\* null in a JSON text
NullText == <<"n", "u", "l", "l">>
\* the value null: no number; a number here that no component takes
JsonNull == 0 - 2 * Infinity

\* as NumberText, but of the number cut to one decimal
NumberTextOneDecimal(value) ==
  IF ~Finite(value) THEN NullText
  ELSE LET abs == IF value < 0 THEN 0 - value ELSE value
           tenths == (abs % 100) \div 10
       IN (IF value < 0 THEN <<"-">> ELSE << >>)
            \o NatText(abs \div 100)
            \o (IF tenths = 0 THEN << >> ELSE <<".", Digits[tenths + 1]>>)

\* the text JSON.stringify writes for a number: null for one that is not
\* finite, else the shortest decimal that reads back as the same number
\* (value is in units of 0.01: sign, whole part, up to two decimals)
NumberText(value) ==
  IF ~Finite(value) THEN NullText
  ELSE LET abs == IF value < 0 THEN 0 - value ELSE value
           hundredths == abs % 100
       IN (IF value < 0 THEN <<"-">> ELSE << >>)
            \o NatText(abs \div 100)
            \o (IF hundredths = 0 THEN << >>
                ELSE IF hundredths % 10 = 0
                THEN <<".", Digits[(hundredths \div 10) + 1]>>
                ELSE <<".", Digits[(hundredths \div 10) + 1],
                       Digits[(hundredths % 10) + 1]>>)

\* the value JSON.parse reads from the text of a number or of null
ParseNumber(text) ==
  IF text = NullText THEN JsonNull
  ELSE LET negative == Head(text) = "-"
           body == IF negative THEN Tail(text) ELSE text
           point == IF \E i \in 1..Len(body) : body[i] = "."
                    THEN CHOOSE i \in 1..Len(body) : body[i] = "."
                    ELSE Len(body) + 1
           decimals == SubSeq(body, point + 1, Len(body))
           abs == 100 * NatValue(SubSeq(body, 1, point - 1), 0)
                    + (IF Len(decimals) = 1 THEN 10 * NatValue(decimals, 0)
                       ELSE NatValue(decimals, 0))
       IN IF negative THEN 0 - abs ELSE abs

\* JSON.stringify(descriptor) of a Float32Array: the object {"0":v0,"1":v1,...}
\* as text, here the sequence of its members <<key, text of the value>>; the
\* array's length is not part of it
Stringify(descriptor) ==
  [i \in 1..Len(descriptor) |-> <<i - 1, NumberText(descriptor[i])>>]

\* JSON.parse(row.descriptor): the object, indexed descriptor2[i] by its keys
Parse(descriptorJSON) ==
  [k \in {descriptorJSON[i][1] : i \in 1..Len(descriptorJSON)} |->
     ParseNumber(descriptorJSON[CHOOSE i \in 1..Len(descriptorJSON) :
                                  descriptorJSON[i][1] = k][2])]

\* the number an operand of - is converted to: null counts as 0
ToNumber(value) == IF value = JsonNull THEN 0 ELSE value

\* the largest n in lo..hi with n * n <= sum
RECURSIVE RootSearch(_, _, _)
RootSearch(sum, lo, hi) ==
  IF lo >= hi THEN lo
  ELSE LET mid == (lo + hi + 1) \div 2
       IN IF mid * mid <= sum THEN RootSearch(sum, mid, hi)
          ELSE RootSearch(sum, lo, mid - 1)

\* the largest n in lo..hi with (1000 * root + n)^2 <= 1000000 * sum, where
\* rest is sum - root * root; no product leaves the 32-bit integers of TLC
RECURSIVE ThousandthsSearch(_, _, _, _)
ThousandthsSearch(root, rest, lo, hi) ==
  IF lo >= hi THEN lo
  ELSE LET mid == (lo + hi + 1) \div 2
       IN IF mid * (2000 * root + mid) <= 1000000 * rest
          THEN ThousandthsSearch(root, rest, mid, hi)
          ELSE ThousandthsSearch(root, rest, lo, mid - 1)

\* Math.sqrt of sum (units 0.0001), in units of 0.00001, rounded down: the
\* largest number whose square is at most 1000000 * sum, found as its whole
\* part (of sqrt(sum), sum <= 40000) and its thousandths
Sqrt(sum) ==
  LET root == RootSearch(sum, 0, 200)
  IN 1000 * root + ThousandthsSearch(root, sum - root * root, 0, 999)

RECURSIVE SumSquares(_, _, _)
SumSquares(descriptor1, descriptor2, i) ==
  IF i >= Len(descriptor1) THEN 0
  ELSE LET diff == descriptor1[i + 1] - ToNumber(descriptor2[i])
       IN diff * diff + SumSquares(descriptor1, descriptor2, i + 1)

\* descriptor1 is the detection's array, descriptor2 the parsed stored object
calculateDistance(descriptor1, descriptor2) ==
  Sqrt(SumSquares(descriptor1, descriptor2, 0))

\* confidence.toFixed(2): the decimal string, as its number of hundredths
ToFixed2(confidence) == (confidence + 5) \div 10

\* as ScanFaces, but with distance <= bestMatch.distance
RECURSIVE ScanFacesLastWins(_, _, _, _)
ScanFacesLastWins(inputDescriptor, registeredFaces, i, bestMatch) ==
  IF i > Len(registeredFaces) THEN bestMatch
  ELSE LET registeredFace == registeredFaces[i]
           distance == calculateDistance(inputDescriptor,
                                         registeredFace.descriptor)
       IN ScanFacesLastWins(inputDescriptor, registeredFaces, i + 1,
                    IF distance <= bestMatch.distance
                    THEN [name |-> registeredFace.name, distance |-> distance]
                    ELSE bestMatch)

(* the inner loop of recognizeFace: bestMatch after registeredFaces[i..]   *)
RECURSIVE ScanFaces(_, _, _, _)
ScanFaces(inputDescriptor, registeredFaces, i, bestMatch) ==
  IF i > Len(registeredFaces) THEN bestMatch
  ELSE LET registeredFace == registeredFaces[i]
           distance == calculateDistance(inputDescriptor,
                                         registeredFace.descriptor)
       IN ScanFaces(inputDescriptor, registeredFaces, i + 1,
                    IF distance < bestMatch.distance
                    THEN [name |-> registeredFace.name, distance |-> distance]
                    ELSE bestMatch)

BestMatch(inputDescriptor, registeredFaces) ==
  ScanFaces(inputDescriptor, registeredFaces, 1,
            [name |-> "Unknown", distance |-> Infinity])

\* as IsMatch, but with bestMatch.distance <= threshold
IsMatchAtMost(bestMatch, threshold) == bestMatch.distance <= threshold

IsMatch(bestMatch, threshold) == bestMatch.distance < threshold

\* as Confidence, but without Math.max(0, ...)
ConfidenceUnclamped(bestMatch) == 100000 - bestMatch.distance

\* Math.max(0, 100 - (bestMatch.distance * 100)), in units of 0.001
Confidence(bestMatch) == Max(0, 100000 - bestMatch.distance)

\* the object pushed to results for one detection
MatchResult(inputDescriptor, registeredFaces, threshold) ==
  LET bestMatch == BestMatch(inputDescriptor, registeredFaces)
  IN [name |-> bestMatch.name,
      confidence |-> ToFixed2(Confidence(bestMatch)),
      isMatched |-> IsMatch(bestMatch, threshold),
      distance |-> bestMatch.distance]

\* as LogArgs, but a face that is not matched is logged as Unknown
LogArgsUnknownUnmatched(inputDescriptor, registeredFaces, threshold) ==
  LET bestMatch == BestMatch(inputDescriptor, registeredFaces)
  IN [matchedName |-> IF IsMatch(bestMatch, threshold) THEN bestMatch.name
                      ELSE "Unknown",
      confidence |-> Confidence(bestMatch),
      status |-> IsMatch(bestMatch, threshold)]

\* the arguments logRecognition is called with for one detection
LogArgs(inputDescriptor, registeredFaces, threshold) ==
  LET bestMatch == BestMatch(inputDescriptor, registeredFaces)
  IN [matchedName |-> bestMatch.name,
      confidence |-> Confidence(bestMatch),
      status |-> IsMatch(bestMatch, threshold)]

\* const statusText = status ? 'matched' : 'unmatched'
StatusText(status) == IF status THEN "matched" ELSE "unmatched"

\* as getAllFaces, but of the rows without the newest: what a cache filled
\* before the last INSERT would serve
getAllFacesStale(rows) ==
  [i \in 1..(Len(rows) - 1) |->
     [id |-> rows[i].id, name |-> rows[i].name,
      descriptor |-> Parse(rows[i].descriptor)]]

\* rows.map(row => ({id, name, descriptor: JSON.parse(row.descriptor)}))
getAllFaces(rows) ==
  [i \in 1..Len(rows) |->
     [id |-> rows[i].id, name |-> rows[i].name,
      descriptor |-> Parse(rows[i].descriptor)]]

(* ------------------------------ responses ---------------------------- *)

NoResponse == [status |-> 0]
Json(status, body) == [status |-> status, body |-> body]
StorageError == "SQLITE_ERROR"


\* what a handler answers when it finds no detection: the register handler
\* with status 400, recognizeFace with a result that res.json sends as 200
NoFaceAnswer(op) ==
  IF op = "register"
  THEN Json(400, [error |-> "No face detected in the provided image"])
  ELSE Json(200, [success |-> FALSE, message |-> "No face detected in image"])

(* ------------------------------- state -------------------------------- *)

\* the locals of a handler before it has set any
NoRequest ==
  [pc |-> "none", op |-> "none", name |-> "", faceId |-> 0,
   threshold |-> Undefined, limit |-> Undefined,
   detected |-> FALSE, detections |-> Null,
   registeredFaces |-> Undefined, call |-> 0, changes |-> 0,
   resp |-> NoResponse]

Init ==
  /\ faces = << >>
  /\ logs = << >>
  /\ sqlite_sequence = [faces |-> 0, recognition_logs |-> 0]
  /\ clock = 0
  /\ inflight = EmptyBag
  /\ pending = {}
  /\ rejected = {}
  /\ calls = 0
  /\ sent = NoRequest
  /\ returned = [c \in 1..MaxCalls |-> NoResponse]
  /\ logOrigin = << >>
  /\ enrolled = << >>

\* the locals of a handler that has just been entered
Enter(op) == [NoRequest EXCEPT !.op = op]

(* Handlers and callbacks run to completion, one after the other: the     *)
(* answer of one has left before the next runs                             *)
Ready == sent = NoRequest

\* the handler answers at once: its request was never in flight
Answer(locals, status, body) ==
  /\ Ready
  /\ sent' = [locals EXCEPT !.resp = Json(status, body)]
  /\ inflight' = inflight

\* the handler reaches an await: its request is in flight
Await(locals, pc) ==
  /\ Ready
  /\ BagCardinality(inflight) < MaxInFlight
  /\ inflight' = inflight (+) SetToBag({[locals EXCEPT !.pc = pc]})
  /\ sent' = NoRequest

\* the request r in flight goes on to its next await
Continue(r, locals, pc) ==
  /\ Ready
  /\ inflight' = (inflight (-) SetToBag({r}))
                   (+) SetToBag({[locals EXCEPT !.pc = pc]})
  /\ sent' = NoRequest

\* the handler of the request r in flight answers
Respond(r, locals, status, body) ==
  /\ Ready
  /\ inflight' = inflight (-) SetToBag({r})
  /\ sent' = [locals EXCEPT !.pc = "none", !.resp = Json(status, body)]

\* the requests in flight at pc
At(pc) == {r \in BagToSet(inflight) : r.pc = pc}

(* ---------------------- POST /api/register ---------------------------- *)

\* as PostRegister, but without the check of detections.length > 1
PostRegisterFirstFace(name, imagePath) ==
  LET detections == detectFace(imagePath)
      found == [Enter("register") EXCEPT !.detected = TRUE,
                                         !.detections = detections]
  IN /\ Ready
     /\ IF name = "" \/ imagePath = ""
        THEN Answer(Enter("register"), 400,
                    [error |-> "Name and image path are required"])
        ELSE IF detections = Null \/ Len(detections[1]) = 0
        THEN Answer(found, NoFaceAnswer("register").status,
                    NoFaceAnswer("register").body)
        ELSE Await([found EXCEPT !.name = name], "registerFace")
     /\ UNCHANGED <<faces, logs, sqlite_sequence, clock, pending, rejected,
                    calls, returned, logOrigin, enrolled>>

\* app.post('/api/register'): the handler up to its call of registerFace
PostRegister(name, imagePath) ==
  LET detections == detectFace(imagePath)
      found == [Enter("register") EXCEPT !.detected = TRUE,
                                         !.detections = detections]
  IN /\ Ready
     /\ IF name = "" \/ imagePath = ""
        THEN Answer(Enter("register"), 400,
                    [error |-> "Name and image path are required"])
        ELSE IF detections = Null \/ Len(detections[1]) = 0
        THEN Answer(found, NoFaceAnswer("register").status,
                    NoFaceAnswer("register").body)
        ELSE IF Len(detections[1]) > 1
        THEN Answer(found, 400,
                    [error |-> "Multiple faces detected. Please provide an image with only one face"])
        ELSE Await([found EXCEPT !.name = name], "registerFace")
     /\ UNCHANGED <<faces, logs, sqlite_sequence, clock, pending, rejected,
                    calls, returned, logOrigin, enrolled>>

\* the largest id among rows
RECURSIVE MaxId(_)
MaxId(rows) ==
  IF rows = << >> THEN 0 ELSE Max(Head(rows).id, MaxId(Tail(rows)))

\* as RegisterFace, but with id INTEGER PRIMARY KEY alone: without
\* AUTOINCREMENT the new id is one more than the largest id in the table
RegisterFaceMaxRowid(r) ==
  /\ Ready
  /\ r \in At("registerFace")
  /\ Len(enrolled) < MaxEnroll
  /\ LET lastID == MaxId(faces) + 1
         descriptor == r.detections[1][1]
     IN /\ faces' = Append(faces, [id |-> lastID, name |-> r.name,
                                   descriptor |-> Stringify(descriptor)])
        /\ sqlite_sequence' = [sqlite_sequence EXCEPT !.faces = lastID]
        /\ enrolled' = Append(enrolled, lastID)
        /\ Respond(r, [r EXCEPT !.faceId = lastID], 200,
                   [success |-> TRUE, faceId |-> lastID])
  /\ UNCHANGED <<logs, clock, pending, rejected, calls, returned, logOrigin>>

\* registerFace: the INSERT runs and the handler answers with this.lastID
RegisterFace(r) ==
  /\ Ready
  /\ r \in At("registerFace")
  /\ sqlite_sequence.faces < MaxEnroll
  /\ LET lastID == sqlite_sequence.faces + 1
         descriptor == r.detections[1][1]
     IN /\ faces' = Append(faces, [id |-> lastID, name |-> r.name,
                                   descriptor |-> Stringify(descriptor)])
        /\ sqlite_sequence' = [sqlite_sequence EXCEPT !.faces = lastID]
        /\ enrolled' = Append(enrolled, lastID)
        /\ Respond(r, [r EXCEPT !.faceId = lastID], 200,
                   [success |-> TRUE, faceId |-> lastID])
  /\ UNCHANGED <<logs, clock, pending, rejected, calls, returned, logOrigin>>

\* registerFace: the INSERT fails, the promise rejects, the handler's catch
RegisterFaceError(r) ==
  /\ Ready
  /\ r \in At("registerFace")
  /\ Respond(r, r, 500, [error |-> StorageError])
  /\ UNCHANGED <<faces, logs, sqlite_sequence, clock, pending, rejected,
                 calls, returned, logOrigin, enrolled>>

(* ------------------------ DELETE /api/faces/:id ----------------------- *)

\* as DeleteRows, but WHERE id <= faceId
DeleteRowsUpTo(rows, faceId) == SelectSeq(rows, LAMBDA row : row.id > faceId)

\* rows of table faces left by DELETE FROM faces WHERE id = faceId
DeleteRows(rows, faceId) == SelectSeq(rows, LAMBDA row : row.id # faceId)

\* the elements of seq at the indices in S, in their order
RECURSIVE Pick(_, _, _)
Pick(seq, S, i) ==
  IF i > Len(seq) THEN << >>
  ELSE (IF i \in S THEN <<seq[i]>> ELSE << >>) \o Pick(seq, S, i + 1)

\* as DeleteFace, but the rows of the ledger that name a deleted record go too
DeleteFaceCascade(faceId) ==
  /\ Ready
  /\ faces' = DeleteRows(faces, faceId)
  /\ LET kept == {j \in 1..Len(logs) :
                    \A i \in 1..Len(faces) :
                       faces[i].id = faceId =>
                         logs[j].matched_name # faces[i].name}
     IN /\ logs' = Pick(logs, kept, 1)
        /\ logOrigin' = Pick(logOrigin, kept, 1)
  /\ Answer([Enter("delete") EXCEPT !.faceId = faceId,
                                    !.changes = Len(faces) - Len(faces')],
            200, [success |-> TRUE])
  /\ UNCHANGED <<sqlite_sequence, clock, pending, rejected, calls, returned,
                 enrolled>>

\* app.delete('/api/faces/:id') and deleteFace: the DELETE runs; changes is
\* this.changes, which the code does not read
DeleteFace(faceId) ==
  /\ Ready
  /\ faces' = DeleteRows(faces, faceId)
  /\ Answer([Enter("delete") EXCEPT !.faceId = faceId,
                                    !.changes = Len(faces) - Len(faces')],
            200, [success |-> TRUE])
  /\ UNCHANGED <<logs, sqlite_sequence, clock, pending, rejected, calls,
                 returned, logOrigin, enrolled>>

\* deleteFace: the DELETE fails, the promise rejects, the handler's catch
DeleteFaceError ==
  /\ Ready
  /\ Answer(Enter("delete"), 500, [error |-> StorageError])
  /\ UNCHANGED <<faces, logs, sqlite_sequence, clock, pending, rejected,
                 calls, returned, logOrigin, enrolled>>

(* ------------------------- POST /api/recognize ------------------------ *)

\* threshold || 0.5 in the handler, threshold = 0.5 in recognizeFace
ThresholdOf(threshold) ==
  IF threshold = Undefined \/ threshold[1] = 0 THEN DefaultThreshold
  ELSE threshold[1]

\* as PostRecognize, but with if (!detections) alone: no check of the length
PostRecognizeNullOnly(imagePath, threshold) ==
  LET detections == detectFace(imagePath)
      found == [Enter("recognize") EXCEPT !.detected = TRUE,
                                          !.detections = detections]
  IN /\ Ready
     /\ IF imagePath = ""
        THEN /\ Answer(Enter("recognize"), 400,
                       [error |-> "Image path is required"])
             /\ calls' = calls
        ELSE IF detections = Null
        THEN /\ Answer(found, NoFaceAnswer("recognize").status,
                       NoFaceAnswer("recognize").body)
             /\ calls' = calls
        ELSE /\ calls < MaxCalls
             /\ calls' = calls + 1
             /\ Await([found EXCEPT !.threshold = threshold,
                                    !.call = calls + 1], "getAllFaces")
     /\ UNCHANGED <<faces, logs, sqlite_sequence, clock, pending, rejected,
                    returned, logOrigin, enrolled>>

\* app.post('/api/recognize') and recognizeFace up to its call of getAllFaces
PostRecognize(imagePath, threshold) ==
  LET detections == detectFace(imagePath)
      found == [Enter("recognize") EXCEPT !.detected = TRUE,
                                          !.detections = detections]
  IN /\ Ready
     /\ IF imagePath = ""
        THEN /\ Answer(Enter("recognize"), 400,
                       [error |-> "Image path is required"])
             /\ calls' = calls
        ELSE IF detections = Null \/ Len(detections[1]) = 0
        THEN /\ Answer(found, NoFaceAnswer("recognize").status,
                       NoFaceAnswer("recognize").body)
             /\ calls' = calls
        ELSE /\ calls < MaxCalls
             /\ calls' = calls + 1
             /\ Await([found EXCEPT !.threshold = threshold,
                                    !.call = calls + 1], "getAllFaces")
     /\ UNCHANGED <<faces, logs, sqlite_sequence, clock, pending, rejected,
                    returned, logOrigin, enrolled>>

\* getAllFaces: the SELECT runs and the promise resolves with the rows
GetAllFaces(r) ==
  /\ Ready
  /\ r \in At("getAllFaces")
  /\ Continue(r, [r EXCEPT !.registeredFaces = Some(getAllFaces(faces))],
              "match")
  /\ UNCHANGED <<faces, logs, sqlite_sequence, clock, pending, rejected,
                 calls, returned, logOrigin, enrolled>>

\* getAllFaces: the SELECT fails, the promise rejects, recognizeFace's catch
GetAllFacesError(r) ==
  /\ Ready
  /\ r \in At("getAllFaces")
  /\ LET result == [success |-> FALSE,
                    message |-> "Error during face recognition",
                    error |-> StorageError]
     IN /\ Respond(r, r, 200, result)
        /\ returned' = [returned EXCEPT ![r.call] = Json(200, result)]
  /\ UNCHANGED <<faces, logs, sqlite_sequence, clock, pending, rejected,
                 calls, logOrigin, enrolled>>

\* as LogCalls, but a face that is not matched is not logged
LogCallsMatchedOnly(call, detections, registeredFaces, threshold) ==
  {[call |-> call, face |-> i,
    args |-> LogArgs(detections[i], registeredFaces, threshold)] :
     i \in {k \in 1..Len(detections) :
              LogArgs(detections[k], registeredFaces, threshold).status}}

\* the db.run calls that the loop of recognizeFace leaves queued
LogCalls(call, detections, registeredFaces, threshold) ==
  {[call |-> call, face |-> i,
    args |-> LogArgs(detections[i], registeredFaces, threshold)] :
     i \in 1..Len(detections)}

\* as MatchFaces, but every face after the first is matched against the
\* store as it is now, read again
MatchFacesRereading(r) ==
  /\ Ready
  /\ r \in At("match")
  /\ LET detections == r.detections[1]
         registeredFaces == r.registeredFaces[1]
         threshold == ThresholdOf(r.threshold)
         results == [i \in 1..Len(detections) |->
                       MatchResult(detections[i],
                                   IF i = 1 THEN registeredFaces
                                   ELSE getAllFaces(faces), threshold)]
         result == [success |-> TRUE, results |-> results]
     IN /\ pending' = pending \cup
             LogCalls(r.call, detections, registeredFaces, threshold)
        /\ Respond(r, r, 200, result)
        /\ returned' = [returned EXCEPT ![r.call] = Json(200, result)]
  /\ UNCHANGED <<faces, logs, sqlite_sequence, clock, rejected, calls,
                 logOrigin, enrolled>>

\* recognizeFace: the loop over the detections, which does not await, the
\* return of the results and the handler's res.json
MatchFaces(r) ==
  /\ Ready
  /\ r \in At("match")
  /\ LET detections == r.detections[1]
         registeredFaces == r.registeredFaces[1]
         threshold == ThresholdOf(r.threshold)
         results == [i \in 1..Len(detections) |->
                       MatchResult(detections[i], registeredFaces, threshold)]
         result == [success |-> TRUE, results |-> results]
     IN /\ pending' = pending \cup
             LogCalls(r.call, detections, registeredFaces, threshold)
        /\ Respond(r, r, 200, result)
        /\ returned' = [returned EXCEPT ![r.call] = Json(200, result)]
  /\ UNCHANGED <<faces, logs, sqlite_sequence, clock, rejected, calls,
                 logOrigin, enrolled>>

\* logRecognition: the INSERT of one queued call runs; nobody awaits it
LogRecognition(w) ==
  /\ Ready
  /\ w \in pending
  /\ LET lastID == sqlite_sequence.recognition_logs + 1
     IN /\ logs' = Append(logs, [id |-> lastID,
                                 matched_name |-> w.args.matchedName,
                                 confidence |-> w.args.confidence,
                                 timestamp |-> clock,
                                 status |-> StatusText(w.args.status)])
        /\ sqlite_sequence' =
             [sqlite_sequence EXCEPT !.recognition_logs = lastID]
  /\ logOrigin' = Append(logOrigin, <<w.call, w.face>>)
  /\ pending' = pending \ {w}
  /\ sent' = NoRequest
  /\ UNCHANGED <<faces, clock, inflight, rejected, calls, returned, enrolled>>

\* logRecognition: the INSERT fails and the promise rejects; no handler is
\* attached to it
LogRecognitionError(w) ==
  /\ Ready
  /\ w \in pending
  /\ pending' = pending \ {w}
  /\ rejected' = rejected \cup {<<w.call, w.face>>}
  /\ sent' = NoRequest
  /\ UNCHANGED <<faces, logs, sqlite_sequence, clock, inflight, calls,
                 returned, logOrigin, enrolled>>

(* --------------------------- GET /api/history ------------------------- *)

\* req.query.limit || 50
LimitOf(limit) == IF limit = Undefined THEN DefaultLimit ELSE limit[1]

(* ORDER BY timestamp DESC: every order of the rows numbered in S in which *)
(* timestamps never increase; SQL leaves the order of rows with equal      *)
(* timestamps to the engine                                                *)
RECURSIVE OrderByTimestampDesc(_, _)
OrderByTimestampDesc(rows, S) ==
  IF S = {} THEN {<< >>}
  ELSE UNION {{<<rows[i]>> \o rest :
                 rest \in OrderByTimestampDesc(rows, S \ {i})} :
              i \in {j \in S : \A k \in S :
                                 rows[k].timestamp <= rows[j].timestamp}}

\* SELECT * FROM recognition_logs ORDER BY timestamp DESC LIMIT limit
SelectHistory(rows, limit) ==
  {SubSeq(ordered, 1, Min(limit, Len(ordered))) :
     ordered \in OrderByTimestampDesc(rows, 1..Len(rows))}

\* app.get('/api/history') and getRecognitionHistory: the SELECT runs
GetHistory(limit) ==
  /\ Ready
  /\ \E history \in SelectHistory(logs, LimitOf(limit)) :
       Answer([Enter("history") EXCEPT !.limit = limit], 200,
              [success |-> TRUE, count |-> Len(history),
               history |-> history])
  /\ UNCHANGED <<faces, logs, sqlite_sequence, clock, pending, rejected,
                 calls, returned, logOrigin, enrolled>>

\* getRecognitionHistory: the SELECT fails, the handler's catch
GetHistoryError ==
  /\ Ready
  /\ Answer(Enter("history"), 500, [error |-> StorageError])
  /\ UNCHANGED <<faces, logs, sqlite_sequence, clock, pending, rejected,
                 calls, returned, logOrigin, enrolled>>

(* ---------------------------- GET /api/faces -------------------------- *)

\* app.get('/api/faces'): getAllFaces, then id and name of each record
GetFaces ==
  /\ Ready
  /\ LET all == getAllFaces(faces)
     IN Answer(Enter("faces"), 200,
               [success |-> TRUE, count |-> Len(all),
                faces |-> [i \in 1..Len(all) |->
                             [id |-> all[i].id, name |-> all[i].name]]])
  /\ UNCHANGED <<faces, logs, sqlite_sequence, clock, pending, rejected,
                 calls, returned, logOrigin, enrolled>>

\* getAllFaces fails, the handler's catch
GetFacesError ==
  /\ Ready
  /\ Answer(Enter("faces"), 500, [error |-> StorageError])
  /\ UNCHANGED <<faces, logs, sqlite_sequence, clock, pending, rejected,
                 calls, returned, logOrigin, enrolled>>

(* ------------------------------ res.json ----------------------------- *)

\* the answer of the last step has left
Deliver ==
  /\ ~Ready
  /\ sent' = NoRequest
  /\ UNCHANGED <<faces, logs, sqlite_sequence, clock, inflight, pending,
                 rejected, calls, returned, logOrigin, enrolled>>

(* ------------------------------- clock -------------------------------- *)

(* a second passes.  Only the INSERTs into recognition_logs read the       *)
(* clock, so time is counted from the first row and passes only while      *)
(* another INSERT is queued                                                *)
Tick ==
  /\ Ready
  /\ clock < MaxClock
  /\ logs # << >>
  /\ pending # {}
  /\ clock' = clock + 1
  /\ sent' = NoRequest
  /\ UNCHANGED <<faces, logs, sqlite_sequence, inflight, pending, rejected,
                 calls, returned, logOrigin, enrolled>>

(* --------------------------- specification ---------------------------- *)

\* ids a caller can ask to delete
FaceIds == 1..MaxEnroll

Next ==
  \/ \E name \in Names \cup {""}, imagePath \in ImagePaths :
        PostRegister(name, imagePath)
  \/ \E r \in BagToSet(inflight) : RegisterFace(r)
  \/ \E r \in BagToSet(inflight) : RegisterFaceError(r)
  \/ \E faceId \in FaceIds : DeleteFace(faceId)
  \/ DeleteFaceError
  \/ \E imagePath \in ImagePaths, threshold \in Thresholds :
        PostRecognize(imagePath, threshold)
  \/ \E r \in BagToSet(inflight) : GetAllFaces(r)
  \/ \E r \in BagToSet(inflight) : GetAllFacesError(r)
  \/ \E r \in BagToSet(inflight) : MatchFaces(r)
  \/ \E w \in pending : LogRecognition(w)
  \/ \E w \in pending : LogRecognitionError(w)
  \/ \E limit \in Limits : GetHistory(limit)
  \/ GetHistoryError
  \/ GetFaces
  \/ GetFacesError
  \/ Deliver
  \/ Tick

Spec == Init /\ [][Next]_vars

(* ------------------------ the store on its own ------------------------ *)

(* the register, delete and list handlers with an extractor whose          *)
(* descriptors are not all alike: also of another dimensionality, also     *)
(* with a component that is not finite                                     *)
StoreDescriptors == {<<0, 0>>, <<30, -5>>, <<0, 0, 0>>, <<Infinity, 0>>}

\* app.post('/api/register') for an image in which detectFace finds one
\* face, with this descriptor: the handler up to its call of registerFace
PostRegisterDescriptor(name, descriptor) ==
  /\ Ready
  /\ Await([Enter("register") EXCEPT !.detected = TRUE,
                                     !.detections = Some(<<descriptor>>),
                                     !.name = name], "registerFace")
  /\ UNCHANGED <<faces, logs, sqlite_sequence, clock, pending, rejected,
                 calls, returned, logOrigin, enrolled>>

StoreNext ==
  \/ \E name \in Names, descriptor \in StoreDescriptors :
        PostRegisterDescriptor(name, descriptor)
  \/ \E r \in BagToSet(inflight) : RegisterFace(r)
  \/ \E r \in BagToSet(inflight) : RegisterFaceError(r)
  \/ \E faceId \in FaceIds : DeleteFace(faceId)
  \/ GetFaces
  \/ Deliver

StoreSpec == Init /\ [][StoreNext]_vars

(* ----------------------- the matcher on its own ----------------------- *)

(* recognizeFace from its call of getAllFaces on, for every store of up to *)
(* MaxStore records and every list of detections below: the state after    *)
(* that many enrolments and one POST /api/recognize                        *)

\* descriptors of enrolled faces, also ones further than 1 apart
Descriptors == {<<0, 0>>, <<30, 30>>, <<100, 100>>}

\* the stores that n calls of registerFace leave
StoresOf(n) ==
  {[i \in 1..n |-> [id |-> i, name |-> record[i][1],
                    descriptor |-> Stringify(record[i][2])]] :
     record \in [1..n -> Names \X Descriptors]}

Stores == UNION {StoresOf(n) : n \in 0..MaxStore}

\* the detections of an image with one face, or with two: enrolled faces
\* and one that is not, as near to <<0, 0>> as to <<30, 30>>
Queries ==
  {<<d>> : d \in Descriptors \cup {<<0, 30>>}}
    \cup {<<<<0, 0>>, <<30, 30>>>>, <<<<30, 30>>, <<100, 100>>>>,
          <<<<100, 100>>, <<0, 30>>>>, <<<<0, 30>>, <<0, 30>>>>}

\* thresholds of the request body; 1e999 in a JSON text reads as Infinity
MatcherThresholds ==
  {Undefined, Some(35000), Some(120000), Some(Infinity)}

MatcherInit ==
  /\ faces \in Stores
  /\ sqlite_sequence = [faces |-> Len(faces), recognition_logs |-> 0]
  /\ enrolled = [i \in 1..Len(faces) |-> i]
  /\ logs = << >>
  /\ clock = 0
  /\ \E detections \in Queries, threshold \in MatcherThresholds :
       inflight = SetToBag({[Enter("recognize") EXCEPT
                               !.pc = "getAllFaces", !.detected = TRUE,
                               !.detections = Some(detections),
                               !.threshold = threshold, !.call = 1]})
  /\ pending = {}
  /\ rejected = {}
  /\ calls = 1
  /\ sent = NoRequest
  /\ returned = [c \in 1..MaxCalls |-> NoResponse]
  /\ logOrigin = << >>

MatcherNext ==
  \/ \E r \in BagToSet(inflight) : GetAllFaces(r)
  \/ \E r \in BagToSet(inflight) : MatchFaces(r)
  \/ \E w \in pending : LogRecognition(w)
  \/ Deliver

MatcherSpec == MatcherInit /\ [][MatcherNext]_vars

(* ------------------------------- claims ------------------------------- *)

\* the call numbers given so far
Calls == 1..calls
\* recognizeFace call c returned { success: true, results }
Succeeded(c) == returned[c].status = 200 /\ returned[c].body.success
Results(c) == returned[c].body.results
\* the rows of logs that logRecognition wrote for face i of call c
RowsFor(c, i) == {j \in 1..Len(logs) : logOrigin[j] = <<c, i>>}
\* some logRecognition of call c is still queued, or has rejected
Queued(c) == \E w \in pending : w.call = c
Rejected(c) == \E o \in rejected : o[1] = c

(* C1: whenever recognizeFace has returned success with k results, the      *)
(* ledger row of each of the k faces has been written.                     *)
C1_ResultsAfterLedger ==
  \A c \in Calls :
    Succeeded(c) => \A i \in 1..Len(Results(c)) : RowsFor(c, i) # {}

(* C2: when logRecognition fails for a face of a call, that call does not   *)
(* return success and no later face of its batch is processed.             *)
C2_LedgerFailureSurfaced ==
  \A o \in rejected :
    /\ ~Succeeded(o[1])
    /\ \A w \in pending : w.call = o[1] => w.face <= o[2]
    /\ \A j \in 1..Len(logs) :
         logOrigin[j][1] = o[1] => logOrigin[j][2] <= o[2]

\* row is the ledger entry of result: same name and status
SameNameAndStatus(row, result) ==
  /\ row.matched_name = result.name
  /\ row.status = StatusText(result.isMatched)

(* C3, as claimed: once the writes of a successful call have all run        *)
(* without error, the ledger holds exactly one row per detected face, with *)
(* the name, the status and the confidence of the result returned for it.  *)
(* The result's confidence is a string of hundredths, the row's a number   *)
(* of thousandths.                                                         *)
C3_EveryAttemptRecordedSame ==
  \A c \in Calls :
    (Succeeded(c) /\ ~Queued(c) /\ ~Rejected(c)) =>
      \A i \in 1..Len(Results(c)) :
        /\ Cardinality(RowsFor(c, i)) = 1
        /\ \A j \in RowsFor(c, i) :
             /\ SameNameAndStatus(logs[j], Results(c)[i])
             /\ logs[j].confidence = 10 * Results(c)[i].confidence

(* C3, amended: once the writes of a successful call have all run without   *)
(* error, the ledger holds exactly one row per detected face and no other  *)
(* row of that call, each with the name and the status of the result       *)
(* returned for that face and with the confidence that the result's        *)
(* confidence is the rounding of, to two decimals.                         *)
C3_EveryAttemptRecorded ==
  \A c \in Calls :
    (Succeeded(c) /\ ~Queued(c) /\ ~Rejected(c)) =>
      /\ \A j \in 1..Len(logs) :
           logOrigin[j][1] = c => logOrigin[j][2] \in 1..Len(Results(c))
      /\ \A i \in 1..Len(Results(c)) :
           /\ Cardinality(RowsFor(c, i)) = 1
           /\ \A j \in RowsFor(c, i) :
                /\ SameNameAndStatus(logs[j], Results(c)[i])
                /\ ToFixed2(logs[j].confidence) = Results(c)[i].confidence

\* a call with two faces, one matched and one not, has both rows written
C3_Witness ==
  \E c \in Calls :
    /\ Succeeded(c) /\ ~Queued(c) /\ ~Rejected(c)
    /\ Len(Results(c)) = 2
    /\ Results(c)[1].isMatched # Results(c)[2].isMatched
    /\ \E j \in 1..Len(logs) : logs[j].confidence % 10 # 0

\* the names of the records in the store
EnrolledNames == {faces[i].name : i \in 1..Len(faces)}
\* the last step answered a request to op
Answered(op) == sent.op = op /\ sent.resp.status # 0
\* listAll of the store after this step
ListAllAfter == getAllFaces(faces')

(* C4: the ledger is append-only: every step, of whatever operation, leaves *)
(* the rows written so far in place and unchanged, and at most adds rows   *)
(* after them.                                                             *)
C4_LedgerAppendOnly ==
  [][/\ Len(logs') >= Len(logs)
     /\ SubSeq(logs', 1, Len(logs)) = logs]_vars

\* the ledger holds two rows that name an identity, and the store is empty
\* again after its records were deleted
C4_Witness ==
  /\ Len(logs) = 2
  /\ \A j \in 1..Len(logs) : logs[j].matched_name \in Names
  /\ faces = << >>
  /\ sqlite_sequence.faces >= 1

(* C5: a step that deletes id X takes exactly the record with id X out of   *)
(* what listAll returns, the other records staying as they are and in      *)
(* their order, and leaves the ledger as it is.                            *)
C5_DeleteFrame ==
  [][(sent'.op = "delete" /\ sent'.resp.status = 200) =>
       /\ ListAllAfter =
            SelectSeq(getAllFaces(faces),
                      LAMBDA record : record.id # sent'.faceId)
       /\ logs' = logs]_vars

\* an enrolled identity was deleted while another stays enrolled and the
\* ledger has a row with the deleted identity's name
C5_Witness ==
  /\ Answered("delete") /\ sent.resp.status = 200 /\ sent.changes = 1
  /\ faces # << >>
  /\ \E j \in 1..Len(logs) :
       logs[j].matched_name \in Names \ EnrolledNames

(* C6: delete(id) reports success only when a record with that id was in    *)
(* the store and has been removed.                                         *)
C6_DeleteAbsentFails ==
  (Answered("delete") /\ sent.resp.status = 200) => sent.changes >= 1

(* C7: the enroll flow writes to the store exactly when the extractor       *)
(* returned one descriptor: with none it answers that no face was          *)
(* detected, with two or more that the input is ambiguous, both times      *)
(* leaving the store as it is; with one it calls registerFace, whose       *)
(* INSERT adds exactly one record, with the name and that descriptor; and  *)
(* the store grows in no other step.                                       *)
C7_EnrollExactlyOne ==
  [][/\ (sent'.op = "register" /\ sent'.detected) =>
          LET n == IF sent'.detections = Null THEN 0
                   ELSE Len(sent'.detections[1])
          IN /\ n = 0 => /\ sent'.resp.status = 400
                         /\ sent'.resp.body.error =
                              "No face detected in the provided image"
             /\ n >= 2 => /\ sent'.resp.status = 400
                          /\ sent'.resp.body.error =
                               "Multiple faces detected. Please provide an image with only one face"
             /\ sent'.resp.status = 200 =>
                  /\ n = 1
                  /\ faces' = Append(faces,
                       [id |-> sent'.resp.body.faceId, name |-> sent'.name,
                        descriptor |-> Stringify(sent'.detections[1][1])])
             /\ sent'.resp.status # 200 => faces' = faces
     /\ Len(faces') > Len(faces) =>
          sent'.op = "register" /\ sent'.resp.status = 200
     /\ \A r \in BagToSet(inflight') :
          r.op = "register" =>
            /\ r.pc = "registerFace"
            /\ r.detections # Null /\ Len(r.detections[1]) = 1]_vars

\* an image with two faces was refused while the store holds a record that
\* an image with one face enrolled
C7_Witness ==
  /\ Answered("register")
  /\ sent.detections # Null /\ Len(sent.detections[1]) = 2
  /\ faces # << >>

(* C8: a recognize call whose extractor reports zero faces answers that no  *)
(* face was detected, without reading the store, without queueing a write  *)
(* to the ledger and without changing store or ledger; and no call with    *)
(* zero faces goes on to getAllFaces.                                      *)
C8_RecognizeZeroFaces ==
  [][/\ (sent'.op = "recognize" /\ sent'.detected
           /\ sent'.detections = Some(<< >>)) =>
          /\ sent'.resp = Json(200, [success |-> FALSE,
                                     message |-> "No face detected in image"])
          /\ sent'.registeredFaces = Undefined
          /\ sent'.call = 0
          /\ UNCHANGED <<faces, logs, sqlite_sequence, pending, rejected>>
     /\ \A r \in BagToSet(inflight') :
          r.op = "recognize" =>
            r.detections # Null /\ Len(r.detections[1]) >= 1]_vars

\* a recognize request with zero faces was answered while the store holds
\* a record
C8_Witness ==
  /\ Answered("recognize")
  /\ sent.detected /\ sent.detections = Some(<< >>)
  /\ faces # << >>

(* C9: the answer to an enroll or recognize request whose extraction        *)
(* failed is never the answer that a request gets whose extraction         *)
(* succeeded with zero faces.                                              *)
C9_ExtractionErrorDistinct ==
  (sent.op \in {"register", "recognize"} /\ sent.detected
     /\ sent.detections = Null) =>
    sent.resp # NoFaceAnswer(sent.op)

\* the k rows written last, the newest first
NewestFirst(rows, k) == [i \in 1..k |-> rows[Len(rows) - i + 1]]

(* C10: a history query with a positive limit on a ledger of n rows returns *)
(* the min(limit, n) rows appended last, the newest first.                 *)
C10_HistoryNewestFirst ==
  (Answered("history") /\ sent.resp.status = 200) =>
    sent.resp.body.history =
      NewestFirst(logs, Min(LimitOf(sent.limit), Len(logs)))

\* the last step answered a recognize request with { success: true, results }
Recognized ==
  /\ Answered("recognize")
  /\ sent.resp.status = 200
  /\ sent.resp.body.success

(* C11: a face of a recognize call is reported matched exactly when its     *)
(* best distance is strictly less than the threshold that the caller put   *)
(* in the request, whatever that value is, 0 included.                     *)
C11_CallerThresholdUsed ==
  (Recognized /\ sent.threshold # Undefined) =>
    \A i \in 1..Len(sent.resp.body.results) :
      sent.resp.body.results[i].isMatched
        <=> (sent.resp.body.results[i].distance < sent.threshold[1])

\* the enrolled set that the request answered by the last step matched against
Snapshot == sent.registeredFaces[1]
\* the distance of detection i of that request to record k of that set
DistanceTo(i, k) ==
  calculateDistance(sent.detections[1][i], Snapshot[k].descriptor)

(* C12: a recognize call that read an empty enrolled set reports, for every *)
(* detected face and whatever the threshold, no match, the name Unknown,   *)
(* the distance Infinity and the confidence 0.                             *)
C12_EmptySetNoMatch ==
  (Recognized /\ Len(Snapshot) = 0) =>
    \A i \in 1..Len(sent.resp.body.results) :
      sent.resp.body.results[i] =
        [name |-> "Unknown", confidence |-> 0, isMatched |-> FALSE,
         distance |-> Infinity]

\* two faces were matched against an empty set with the threshold Infinity
C12_Witness ==
  /\ Recognized /\ Len(Snapshot) = 0
  /\ Len(sent.resp.body.results) = 2
  /\ sent.threshold = Some(Infinity)

(* C17: against a non-empty enrolled set, the identity reported for a face  *)
(* is that of a record at the least distance of all, the distance reported *)
(* is that least distance, and of several records at the least distance    *)
(* the first in the order of getAllFaces is the one reported.              *)
C17_NearestFirstWins ==
  (Recognized /\ Len(Snapshot) > 0) =>
    \A i \in 1..Len(sent.resp.body.results) :
      \E k \in 1..Len(Snapshot) :
        /\ sent.resp.body.results[i].name = Snapshot[k].name
        /\ sent.resp.body.results[i].distance = DistanceTo(i, k)
        /\ \A j \in 1..Len(Snapshot) : DistanceTo(i, j) >= DistanceTo(i, k)
        /\ \A j \in 1..(k - 1) : DistanceTo(i, j) > DistanceTo(i, k)

\* the first record is further away than the second and the third, which
\* are equally near and carry different names: the second is reported
C17_Witness ==
  /\ Recognized /\ Len(Snapshot) = 3
  /\ DistanceTo(1, 1) > DistanceTo(1, 2)
  /\ DistanceTo(1, 2) = DistanceTo(1, 3)
  /\ Snapshot[2].name # Snapshot[3].name
  /\ sent.resp.body.results[1].name = Snapshot[2].name

\* max(0, 100 - 100 * distance), in units of 0.001
ClampedConfidence(distance) ==
  IF distance >= 100000 THEN 0 ELSE 100000 - distance

(* C18, as claimed: the confidence reported for a face, like the one        *)
(* logged, equals max(0, 100 - 100 * distance).  The reported one is a     *)
(* string of hundredths, the logged one a number of thousandths.           *)
C18_ConfidenceExact ==
  \A c \in Calls :
    Succeeded(c) =>
      \A i \in 1..Len(Results(c)) :
        /\ 10 * Results(c)[i].confidence
             = ClampedConfidence(Results(c)[i].distance)
        /\ \A j \in RowsFor(c, i) :
             logs[j].confidence = ClampedConfidence(Results(c)[i].distance)

(* C18, amended: the confidence logged for a face equals                    *)
(* max(0, 100 - 100 * distance) and the confidence reported is that value  *)
(* rounded to two decimals; both are within [0, 100]; and of two results,  *)
(* the one with the larger distance never has the larger confidence,       *)
(* reported or logged.                                                     *)
C18_ConfidenceClamped ==
  \A c \in Calls :
    Succeeded(c) =>
      \A i \in 1..Len(Results(c)) :
        /\ Results(c)[i].confidence \in 0..10000
        /\ Results(c)[i].confidence
             = ToFixed2(ClampedConfidence(Results(c)[i].distance))
        /\ \A j \in RowsFor(c, i) :
             /\ logs[j].confidence \in 0..100000
             /\ logs[j].confidence
                  = ClampedConfidence(Results(c)[i].distance)
        /\ \A i2 \in 1..Len(Results(c)) :
             Results(c)[i2].distance > Results(c)[i].distance =>
               /\ Results(c)[i2].confidence <= Results(c)[i].confidence
               /\ \A j \in RowsFor(c, i), j2 \in RowsFor(c, i2) :
                    logs[j2].confidence <= logs[j].confidence

\* both rows of a call are written: one face is further than 1 from its
\* nearest record, the other nearer, with a confidence that has thousandths
C18_Witness ==
  \E c \in Calls :
    /\ Succeeded(c) /\ Len(Results(c)) = 2
    /\ RowsFor(c, 1) # {} /\ RowsFor(c, 2) # {}
    /\ \E i \in 1..2 :
         /\ Results(c)[i].distance > 100000
         /\ Results(c)[i].distance < Infinity
         /\ Results(c)[i].confidence = 0
    /\ \E i \in 1..2 : \E j \in RowsFor(c, i) : logs[j].confidence % 10 # 0

(* C19: whenever the enrolled set is not empty, the name reported for a     *)
(* face is the name of a record nearest to it, matched or not, and the     *)
(* name Unknown is reported only against an empty set; the name written to *)
(* the ledger for a face is the name reported for it, also in a row with   *)
(* the status unmatched.                                                   *)
C19_NearestNameAlways ==
  /\ Recognized =>
       \A i \in 1..Len(sent.resp.body.results) :
         /\ Len(Snapshot) > 0 =>
              \E k \in 1..Len(Snapshot) :
                /\ sent.resp.body.results[i].name = Snapshot[k].name
                /\ \A j \in 1..Len(Snapshot) :
                     DistanceTo(i, j) >= DistanceTo(i, k)
         /\ sent.resp.body.results[i].name = "Unknown" => Len(Snapshot) = 0
  /\ \A c \in Calls :
       Succeeded(c) =>
         \A i \in 1..Len(Results(c)) : \A j \in RowsFor(c, i) :
           logs[j].matched_name = Results(c)[i].name

\* a row of the ledger with the status unmatched names an enrolled person
C19_Witness ==
  \E c \in Calls :
    /\ Succeeded(c)
    /\ \E i \in 1..Len(Results(c)) : \E j \in RowsFor(c, i) :
         /\ logs[j].status = "unmatched"
         /\ logs[j].matched_name \in EnrolledNames
         /\ ~Results(c)[i].isMatched

\* the dimensionality of a stored descriptor: the number of its members
Dimension(row) == Len(row.descriptor)
\* the last step answered a register request with success
Registered == Answered("register") /\ sent.resp.status = 200

(* C13: all records of the store have descriptors of one dimensionality,    *)
(* and no register request is answered with success whose descriptor       *)
(* differs in dimensionality from a record of the store.                   *)
C13_DimensionValidated ==
  /\ \A i, j \in 1..Len(faces) : Dimension(faces[i]) = Dimension(faces[j])
  /\ Registered =>
       \A i \in 1..Len(faces) :
         Dimension(faces[i]) = Len(sent.detections[1][1])

(* C14: the ids that successful enrolments returned, in the order of the    *)
(* enrolments, increase strictly, whatever deletes came between; the id a  *)
(* register request is answered with is the last of them; and no two       *)
(* records of the store share an id.                                       *)
C14_IdsIncrease ==
  /\ \A a, b \in 1..Len(enrolled) : a < b => enrolled[a] < enrolled[b]
  /\ Registered => sent.resp.body.faceId = enrolled[Len(enrolled)]
  /\ \A i, j \in 1..Len(faces) : i # j => faces[i].id # faces[j].id
  /\ \A i \in 1..Len(faces) : \E a \in 1..Len(enrolled) :
       faces[i].id = enrolled[a]

\* the record with the first id is deleted and a later enrolment got a
\* greater id
C14_Witness ==
  /\ Registered
  /\ Len(enrolled) = 2 /\ sent.resp.body.faceId = enrolled[2]
  /\ Len(faces) = 1 /\ faces[1].id = enrolled[2]

\* getAllFaces returns one record, with the name and, member by member,
\* the descriptor of the register request answered by the last step
OneRecordAsEnrolled ==
  LET all == getAllFaces(faces)
      descriptor == sent.detections[1][1]
  IN /\ Len(all) = 1
     /\ all[1].name = sent.name
     /\ all[1].id = sent.resp.body.faceId
     /\ DOMAIN all[1].descriptor = 0..(Len(descriptor) - 1)
     /\ \A k \in 1..Len(descriptor) :
          all[1].descriptor[k - 1] = descriptor[k]

SameRecords(registeredFaces, rows) ==
  /\ Len(registeredFaces) = Len(rows)
  /\ \A k \in 1..Len(rows) :
       /\ registeredFaces[k].id = rows[k].id
       /\ registeredFaces[k].name = rows[k].name

(* C16: the enrolled set of a recognize request is read from the store      *)
(* after the request has started, in a step of its own: it is the store's  *)
(* content at that step, with every record enrolled and not deleted by     *)
(* then and no record deleted by then, never the set of an earlier read.   *)
C16_FreshEnrolledSet ==
  [][\A r \in BagToSet(inflight') :
       (r.pc = "match" /\ CopiesIn(r, inflight') > CopiesIn(r, inflight)) =>
         /\ SameRecords(r.registeredFaces[1], faces)
         /\ faces' = faces
         /\ [r EXCEPT !.pc = "getAllFaces", !.registeredFaces = Undefined]
              \in BagToSet(inflight)]_vars

\* a request started after a second enrolment and the delete of the first
\* record matched its face with the new record, the only one of its set
C16_Witness ==
  /\ Recognized
  /\ Len(enrolled) = 2
  /\ Len(Snapshot) = 1 /\ Snapshot[1].id = enrolled[2]
  /\ sent.resp.body.results[1].name = Snapshot[1].name
  /\ sent.resp.body.results[1].isMatched

(* C20: every face of a recognize call is matched against the one enrolled  *)
(* set that the call read, after the extraction and before the matching:   *)
(* each result is the least distance to the records of that set, with the  *)
(* name of a record at that distance, whatever the store holds by then.    *)
C20_OneSnapshotPerCall ==
  /\ Recognized =>
       \A i \in 1..Len(sent.resp.body.results) :
         IF Len(Snapshot) = 0
         THEN /\ sent.resp.body.results[i].distance = Infinity
              /\ sent.resp.body.results[i].name = "Unknown"
         ELSE \E k \in 1..Len(Snapshot) :
                /\ sent.resp.body.results[i].distance = DistanceTo(i, k)
                /\ sent.resp.body.results[i].name = Snapshot[k].name
                /\ \A j \in 1..Len(Snapshot) :
                     DistanceTo(i, j) >= DistanceTo(i, k)
  /\ \A r \in BagToSet(inflight) :
       r.op = "recognize" =>
         /\ r.detected /\ r.detections # Null
         /\ r.pc = "getAllFaces" => r.registeredFaces = Undefined
         /\ r.pc = "match" => r.registeredFaces # Undefined
         /\ r.pc \in {"getAllFaces", "match"}

\* two faces were matched against a set that the store no longer equals:
\* a record was enrolled between the read and the matching
C20_Witness ==
  /\ Recognized
  /\ Len(sent.resp.body.results) = 2
  /\ ~SameRecords(Snapshot, faces)
  /\ Len(faces) > Len(Snapshot)

====
